---- MODULE Spec2Model ----
(***************************************************************************)
(* Model of src/emit.rs: the dependency-closure walker (EmitCtx::emit_type *)
(* and EmitCtx::emit_def), the structural emitters (impl Emit for ...) and *)
(* the module driver write_definition_file.                                *)
(*                                                                         *)
(* A sink write (one write!/writeln! invocation) is a sequence of text     *)
(* pieces; the sink w is the sequence of the writes that succeeded.        *)
(* Recursion is an explicit call stack.  Every write may fail, which the   *)
(* `?` operator propagates through every frame to the caller.              *)
(***************************************************************************)
EXTENDS Integers, Sequences, FiniteSets

\* The largest number of dependency edges (entries of all Deps lists) of an
\* input graph.
MaxEdges == 3

\* The depth of the call stack the model allows; the walker needs one frame
\* for write_definition_file, one per type being visited and one for the
\* visit that finds its type visited.
MaxStack == 5

----------------------------------------------------------------------------
(* Option<T> *)

None == [some |-> FALSE]

Some(x) == [some |-> TRUE, v |-> x]

----------------------------------------------------------------------------
(* The types of the run: identities (TypeId) and their constant descriptors *)

\* The source types that implement TypeDef, by identity: a documented struct
\* A, a generic enum B declared under the path a.b whose name carries docs,
\* and a Native container V (a primitive when it has no dependency).
Types == {1, 2, 3}

\* Which variant of TypeInfo the type's INFO is.
Kind == <<"Defined", "Defined", "Native">>

\* The Ident of an object field, by position.
FieldIdent == <<"f1", "f2", "f3", "f4", "f5">>

\* A primitive alias, as the Native types of the crate render (doc table).
NumberName == [docs |-> None, path |-> <<>>, name |-> "number", generics |-> <<>>]

\* TypeInfo::Defined's name, per type.
NameOf(t) ==
    CASE t = 1 -> [docs |-> None, path |-> <<>>, name |-> "A", generics |-> <<>>]
      [] t = 2 -> [docs |-> Some(<<"name of B">>), path |-> <<"a", "b">>,
                   name |-> "B",
                   generics |-> <<[e |-> "Name", name |-> NumberName]>>]
      [] t = 3 -> NumberName

\* TypeInfo::Defined's docs, per type.
DocsOf(t) == IF t = 1 THEN Some(<<"type A">>) ELSE None

VARIABLES
    root,      \* T of write_definition_file::<W, T>
    deps,      \* T::Deps of every type: its ordered dependency list
    options,   \* EmitCtx.options
    w,         \* EmitCtx.w: the writes the sink accepted, in order
    visited,   \* EmitCtx.visited
    stats,     \* EmitCtx.stats
    stack,     \* the call stack, innermost frame last
    pending,   \* the writes the running function body has yet to issue
    result     \* what write_definition_file returned, or that it is running

vars == <<root, deps, options, w, visited, stats, stack, pending, result>>

\* The reference of a dependency inside a structural definition.
DepExpr(t, d) ==
    IF Kind[t] = "Native" /\ Kind[d] = "Native"
    THEN [e |-> "Name", name |-> NumberName]
    ELSE [e |-> "Ref", type |-> d]

\* TypeInfo's def, per type, built over the type's dependencies as the
\* derive macro and the crate's Native impls build it.
DefOf(t) ==
    LET n == Len(deps[t])
        refs == [i \in 1..n |-> DepExpr(t, deps[t][i])]
    IN  CASE t = 1 ->
               [e |-> "Object", docs |-> None,
                fields |-> [i \in 1..n |->
                    [docs |-> None, name |-> FieldIdent[i],
                     optional |-> (i = 2), type |-> refs[i]]]]
          [] t = 2 ->
               IF n = 0 THEN [e |-> "String", docs |-> None, value |-> "b"]
               ELSE IF n = 1 THEN [e |-> "Union", docs |-> None, members |-> refs]
               ELSE [e |-> "Intersection", docs |-> None, members |-> refs]
          [] t = 3 ->
               IF n = 0 THEN [e |-> "Name", name |-> NumberName]
               ELSE IF n = 1 THEN [e |-> "Array", docs |-> None, item |-> refs[1]]
               ELSE [e |-> "Tuple", docs |-> None, elements |-> refs]

\* T::INFO
INFO(t) ==
    IF Kind[t] = "Native"
    THEN [kind |-> "Native", def |-> DefOf(t)]
    ELSE [kind |-> "Defined", docs |-> DocsOf(t), name |-> NameOf(t),
          def |-> DefOf(t)]

----------------------------------------------------------------------------
(* The structural emitters: the writes each issues, in order *)

\* write!(ctx.w, ...) of the given pieces: one write.
Wr(pieces) == <<pieces>>

\* impl Emit for Ident
EmitIdent(id) == Wr(<<id>>)

RECURSIVE DocLines(_, _)
DocLines(lines, i) ==
    IF i > Len(lines) THEN <<>>
    ELSE Wr(<<" * ", lines[i], "\n">>) \o DocLines(lines, i + 1)

\* impl Emit for Docs
EmitDocs(lines) ==
    Wr(<<"\n">>) \o Wr(<<"/**", "\n">>) \o DocLines(lines, 1) \o Wr(<<" */", "\n">>)

\* impl Emit for Option<T>, at T = Docs
EmitOptDocs(d) == IF d.some THEN EmitDocs(d.v) ELSE <<>>

RECURSIVE EmitPath(_, _)
\* the loop over the path of impl Emit for TypeName
EmitPath(path, i) ==
    IF i > Len(path) THEN <<>>
    ELSE EmitIdent(path[i]) \o Wr(<<".">>) \o EmitPath(path, i + 1)

RECURSIVE EmitTypeExpr(_)
RECURSIVE EmitTypeName(_)
RECURSIVE EmitList(_, _, _)
RECURSIVE EmitFields(_, _)

\* the `first` loops of TypeName generics, Tuple, Union and Intersection
EmitList(xs, sep, i) ==
    IF i > Len(xs) THEN <<>>
    ELSE (IF i = 1 THEN <<>> ELSE Wr(<<sep>>))
         \o EmitTypeExpr(xs[i]) \o EmitList(xs, sep, i + 1)

\* the loop over the fields of impl Emit for Object
EmitFields(fields, i) ==
    IF i > Len(fields) THEN <<>>
    ELSE LET f == fields[i]
         IN  EmitOptDocs(f.docs) \o EmitIdent(f.name)
             \o (IF f.optional THEN Wr(<<"?">>) ELSE <<>>)
             \o Wr(<<":">>) \o EmitTypeExpr(f.type) \o Wr(<<";">>)
             \o EmitFields(fields, i + 1)

\* impl Emit for TypeName
EmitTypeName(n) ==
    EmitOptDocs(n.docs) \o EmitPath(n.path, 1) \o EmitIdent(n.name)
    \o (IF Len(n.generics) # 0
        THEN Wr(<<"<">>) \o EmitList(n.generics, ",", 1) \o Wr(<<">">>)
        ELSE <<>>)

\* EmitRef without the root namespace before the name.
EmitRefUnqualified(t) ==
    IF Kind[t] = "Native"
    THEN EmitTypeExpr(INFO(t).def)
    ELSE EmitTypeName(INFO(t).name)

\* the TypeExpr::Ref arm of impl Emit for TypeExpr
EmitRef(t) ==
    IF Kind[t] = "Native"
    THEN EmitTypeExpr(INFO(t).def)
    ELSE Wr(<<options.root_namespace, ".">>) \o EmitTypeName(INFO(t).name)

\* impl Emit for TypeExpr, with the impls for TypeString, Tuple, Object,
\* Array, Union and Intersection it dispatches to
EmitTypeExpr(x) ==
    CASE x.e = "Ref" -> EmitRef(x.type)
      [] x.e = "Name" -> EmitTypeName(x.name)
      [] x.e = "String" ->
           EmitOptDocs(x.docs) \o Wr(<<"\"", x.value, "\"">>)
      [] x.e = "Tuple" ->
           EmitOptDocs(x.docs) \o Wr(<<"[">>)
           \o EmitList(x.elements, ",", 1) \o Wr(<<"]">>)
      [] x.e = "Object" ->
           EmitOptDocs(x.docs) \o Wr(<<"{">>)
           \o EmitFields(x.fields, 1) \o Wr(<<"}">>)
      [] x.e = "Array" ->
           EmitOptDocs(x.docs) \o Wr(<<"(">>)
           \o EmitTypeExpr(x.item) \o Wr(<<")", "[]">>)
      [] x.e = "Union" ->
           EmitOptDocs(x.docs)
           \o (IF Len(x.members) = 0 THEN Wr(<<"never">>)
               ELSE Wr(<<"(">>) \o EmitList(x.members, "|", 1) \o Wr(<<")">>))
      [] x.e = "Intersection" ->
           EmitOptDocs(x.docs)
           \o (IF Len(x.members) = 0 THEN Wr(<<"any">>)
               ELSE Wr(<<"(">>) \o EmitList(x.members, "&", 1) \o Wr(<<")">>))

RECURSIVE EmitNamespacePath(_, _)
\* the `first` loop over name.path of emit_def
EmitNamespacePath(path, i) ==
    IF i > Len(path) THEN <<>>
    ELSE (IF i = 1 THEN <<>> ELSE Wr(<<".">>))
         \o EmitIdent(path[i]) \o EmitNamespacePath(path, i + 1)

\* DefWrites without the closing of the namespace of the path.
DefWritesUnclosed(t) ==
    LET info == INFO(t)
        name == info.name
    IN  EmitOptDocs(info.docs)
        \o (IF Len(name.path) # 0
            THEN Wr(<<"export namespace ">>) \o EmitNamespacePath(name.path, 1)
                 \o Wr(<<"{">>)
            ELSE <<>>)
        \o Wr(<<"export type ">>)
        \o EmitTypeName([name EXCEPT !.path = <<>>])
        \o Wr(<<"=">>)
        \o EmitTypeExpr(info.def)
        \o Wr(<<";">>)
        \o Wr(<<"\n">>)

\* the writes of the TypeInfo::Defined arm of emit_def
DefWrites(t) ==
    LET info == INFO(t)
        name == info.name
    IN  EmitOptDocs(info.docs)
        \o (IF Len(name.path) # 0
            THEN Wr(<<"export namespace ">>) \o EmitNamespacePath(name.path, 1)
                 \o Wr(<<"{">>)
            ELSE <<>>)
        \o Wr(<<"export type ">>)
        \o EmitTypeName([name EXCEPT !.path = <<>>])
        \o Wr(<<"=">>)
        \o EmitTypeExpr(info.def)
        \o Wr(<<";">>)
        \o (IF Len(name.path) # 0 THEN Wr(<<"}">>) ELSE <<>>)
        \o Wr(<<"\n">>)

RECURSIVE HeaderLines(_, _)
\* the loop over header.lines() of write_definition_file
HeaderLines(lines, i) ==
    IF i > Len(lines) THEN <<>>
    ELSE Wr(<<"// ", lines[i], "\n">>) \o HeaderLines(lines, i + 1)

\* PrologueWrites with the root namespace opened before the default export.
PrologueWritesSwapped ==
    (IF options.header.some
     THEN HeaderLines(options.header.v, 1) \o Wr(<<"\n">>)
     ELSE <<>>)
    \o Wr(<<"export namespace ", options.root_namespace, "{", "\n">>)
    \o Wr(<<"export default ", options.root_namespace, ";", "\n">>)

\* the writes of write_definition_file before it visits the root type
PrologueWrites ==
    (IF options.header.some
     THEN HeaderLines(options.header.v, 1) \o Wr(<<"\n">>)
     ELSE <<>>)
    \o Wr(<<"export default ", options.root_namespace, ";", "\n">>)
    \o Wr(<<"export namespace ", options.root_namespace, "{", "\n">>)

\* the last write of write_definition_file
EpilogueWrites == Wr(<<"}", "\n">>)

----------------------------------------------------------------------------
(* The inputs *)

RECURSIVE GraphsUpTo(_)
\* Every assignment of dependency lists with at most k entries in all.
GraphsUpTo(k) ==
    IF k = 0 THEN {[t \in Types |-> <<>>]}
    ELSE LET G == GraphsUpTo(k - 1)
         IN  G \cup {[g EXCEPT ![s] = Append(g[s], d)] :
                        g \in G, s \in Types, d \in Types}

RECURSIVE ReachFrom(_, _)
\* The types reachable from the set S through the dependency lists of g.
ReachFrom(g, S) ==
    LET next == S \cup {d \in Types : \E s \in S : \E i \in 1..Len(g[s]) : g[s][i] = d}
    IN  IF next = S THEN S ELSE ReachFrom(g, next)

\* DefinitionFileOptions: the default header, no header, a two-line header.
Headers ==
    {None, Some(<<"AUTO-GENERATED by typescript-type-def">>),
     Some(<<"line 1", "line 2">>)}

\* EmitCtx::new, with the arguments of write_definition_file
Init ==
    /\ root \in Types
    /\ deps \in {g \in GraphsUpTo(MaxEdges) :
                    \A t \in Types : g[t] # <<>> => t \in ReachFrom(g, {root})}
    /\ options \in {[header |-> h, root_namespace |-> "types"] : h \in Headers}
    /\ w = <<>>
    /\ visited = {}
    /\ stats = [type_definitions |-> 0]
    /\ stack = <<[fn |-> "write_definition_file", pc |-> "start"]>>
    /\ pending = <<>>
    /\ result = [tag |-> "running"]

----------------------------------------------------------------------------
(* The steps *)

Top == stack[Len(stack)]

Pop == SubSeq(stack, 1, Len(stack) - 1)

SetTop(f) == [stack EXCEPT ![Len(stack)] = f]

Running == result.tag = "running" /\ stack # <<>>

\* write_definition_file up to the visit of the root: the header, the
\* default export and the opening of the root namespace are to be written.
Begin ==
    /\ Running /\ Top.fn = "write_definition_file" /\ Top.pc = "start"
    /\ pending' = PrologueWrites
    /\ stack' = SetTop([Top EXCEPT !.pc = "prologue"])
    /\ UNCHANGED <<root, deps, options, w, visited, stats, result>>

\* A write!/writeln! that the sink accepts.
WriteOk ==
    /\ Running /\ pending # <<>>
    /\ w' = Append(w, Head(pending))
    /\ pending' = Tail(pending)
    /\ UNCHANGED <<root, deps, options, visited, stats, stack, result>>

\* WriteErr with the error dropped: the run goes on with the next write.
WriteErrSwallowed ==
    /\ Running /\ pending # <<>>
    /\ pending' = Tail(pending)
    /\ UNCHANGED <<root, deps, options, w, visited, stats, stack, result>>

\* A write!/writeln! that the sink fails: `?` returns the error from every
\* frame up to the caller of write_definition_file.
WriteErr ==
    /\ Running /\ pending # <<>>
    /\ result' = [tag |-> "Err"]
    /\ stack' = <<>>
    /\ pending' = <<>>
    /\ UNCHANGED <<root, deps, options, w, visited, stats>>

\* ctx.emit_type::<T>() of write_definition_file
CallRoot ==
    /\ Running /\ Top.fn = "write_definition_file" /\ Top.pc = "prologue"
    /\ pending = <<>>
    /\ stack' = Append(SetTop([Top EXCEPT !.pc = "visited_root"]),
                       [fn |-> "emit_type", T |-> root, pc |-> "enter", i |-> 1])
    /\ UNCHANGED <<root, deps, options, w, visited, stats, pending, result>>

\* EmitTypeEnter without the visited check.
EmitTypeEnterAlways ==
    /\ Running /\ Top.fn = "emit_type" /\ Top.pc = "enter"
    /\ visited' = visited \cup {Top.T}
    /\ stack' = SetTop([Top EXCEPT !.pc = "deps"])
    /\ UNCHANGED <<root, deps, options, w, stats, pending, result>>

\* EmitTypeEnter that never records the type it visits.
EmitTypeEnterNoMark ==
    /\ Running /\ Top.fn = "emit_type" /\ Top.pc = "enter"
    /\ IF Top.T \in visited
       THEN stack' = Pop
       ELSE stack' = SetTop([Top EXCEPT !.pc = "deps"])
    /\ UNCHANGED <<root, deps, options, w, visited, stats, pending, result>>

\* EmitTypeEnter that returns at once from a Native type.
EmitTypeEnterSkipNative ==
    /\ Running /\ Top.fn = "emit_type" /\ Top.pc = "enter"
    /\ IF Top.T \in visited \/ Kind[Top.T] = "Native"
       THEN /\ stack' = Pop
            /\ UNCHANGED visited
       ELSE /\ visited' = visited \cup {Top.T}
            /\ stack' = SetTop([Top EXCEPT !.pc = "deps"])
    /\ UNCHANGED <<root, deps, options, w, stats, pending, result>>

\* EmitTypeEnter that records the type before it checks the set, and so finds
\* every type visited.
EmitTypeEnterInsertFirst ==
    /\ Running /\ Top.fn = "emit_type" /\ Top.pc = "enter"
    /\ visited' = visited \cup {Top.T}
    /\ stack' = Pop
    /\ UNCHANGED <<root, deps, options, w, stats, pending, result>>

\* emit_type: the visited check, and the insertion when T is new
EmitTypeEnter ==
    /\ Running /\ Top.fn = "emit_type" /\ Top.pc = "enter"
    /\ IF Top.T \in visited
       THEN /\ stack' = Pop
            /\ UNCHANGED visited
       ELSE /\ visited' = visited \cup {Top.T}
            /\ stack' = SetTop([Top EXCEPT !.pc = "deps"])
    /\ UNCHANGED <<root, deps, options, w, stats, pending, result>>

\* <T::Deps as Deps>::emit_each: the visit of the next dependency
EmitEach ==
    /\ Running /\ Top.fn = "emit_type" /\ Top.pc = "deps"
    /\ Top.i <= Len(deps[Top.T])
    /\ Len(stack) < MaxStack
    /\ stack' = Append(SetTop([Top EXCEPT !.i = @ + 1]),
                       [fn |-> "emit_type", T |-> deps[Top.T][Top.i],
                        pc |-> "enter", i |-> 1])
    /\ UNCHANGED <<root, deps, options, w, visited, stats, pending, result>>

\* EmitDef entered one dependency early.
EmitDefEarly ==
    /\ Running /\ Top.fn = "emit_type" /\ Top.pc = "deps"
    /\ Top.i >= Len(deps[Top.T])
    /\ IF INFO(Top.T).kind = "Native"
       THEN /\ stack' = Pop
            /\ UNCHANGED <<stats, pending>>
       ELSE /\ stats' = [stats EXCEPT !.type_definitions = @ + 1]
            /\ pending' = DefWrites(Top.T)
            /\ stack' = SetTop([Top EXCEPT !.pc = "def"])
    /\ UNCHANGED <<root, deps, options, w, visited, result>>

\* EmitDef that counts the Native types too.
EmitDefCountsNative ==
    /\ Running /\ Top.fn = "emit_type" /\ Top.pc = "deps"
    /\ Top.i > Len(deps[Top.T])
    /\ stats' = [stats EXCEPT !.type_definitions = @ + 1]
    /\ IF INFO(Top.T).kind = "Native"
       THEN /\ stack' = Pop
            /\ UNCHANGED pending
       ELSE /\ pending' = DefWrites(Top.T)
            /\ stack' = SetTop([Top EXCEPT !.pc = "def"])
    /\ UNCHANGED <<root, deps, options, w, visited, result>>

\* emit_def, entered when emit_each has returned
EmitDef ==
    /\ Running /\ Top.fn = "emit_type" /\ Top.pc = "deps"
    /\ Top.i > Len(deps[Top.T])
    /\ IF INFO(Top.T).kind = "Native"
       THEN /\ stack' = Pop
            /\ UNCHANGED <<stats, pending>>
       ELSE /\ stats' = [stats EXCEPT !.type_definitions = @ + 1]
            /\ pending' = DefWrites(Top.T)
            /\ stack' = SetTop([Top EXCEPT !.pc = "def"])
    /\ UNCHANGED <<root, deps, options, w, visited, result>>

\* the Ok(()) of emit_def and of emit_type after the declaration
EmitDefReturn ==
    /\ Running /\ Top.fn = "emit_type" /\ Top.pc = "def"
    /\ pending = <<>>
    /\ stack' = Pop
    /\ UNCHANGED <<root, deps, options, w, visited, stats, pending, result>>

\* write_definition_file after the visit: the copy of the statistics and
\* the closing of the root namespace
CloseNamespace ==
    /\ Running /\ Top.fn = "write_definition_file" /\ Top.pc = "visited_root"
    /\ stack' = SetTop([fn |-> "write_definition_file", pc |-> "close",
                        stats |-> stats])
    /\ pending' = EpilogueWrites
    /\ UNCHANGED <<root, deps, options, w, visited, stats, result>>

\* Ok(stats)
ReturnOk ==
    /\ Running /\ Top.fn = "write_definition_file" /\ Top.pc = "close"
    /\ pending = <<>>
    /\ result' = [tag |-> "Ok", stats |-> Top.stats]
    /\ stack' = <<>>
    /\ UNCHANGED <<root, deps, options, w, visited, stats, pending>>

Next ==
    \/ Begin
    \/ WriteOk
    \/ WriteErr
    \/ CallRoot
    \/ EmitTypeEnter
    \/ EmitEach
    \/ EmitDef
    \/ EmitDefReturn
    \/ CloseNamespace
    \/ ReturnOk

Spec == Init /\ [][Next]_vars

\* A run whose sink accepts every write; the run is never suspended, so a
\* step that can be taken is taken.
NextWorkingSink ==
    \/ Begin
    \/ WriteOk
    \/ CallRoot
    \/ EmitTypeEnter
    \/ EmitEach
    \/ EmitDef
    \/ EmitDefReturn
    \/ CloseNamespace
    \/ ReturnOk

WorkingSinkSpec ==
    Init /\ [][NextWorkingSink]_vars /\ WF_vars(NextWorkingSink)

----------------------------------------------------------------------------
(* Reading the output *)

DefinedTypes == {t \in Types : Kind[t] = "Defined"}

NativeTypes == {t \in Types : Kind[t] = "Native"}

\* The dependency closure of the root, computed as a fixpoint over the
\* dependency lists.
Reachable == ReachFrom(deps, {root})

ReachableDefined == Reachable \cap DefinedTypes

Done == result.tag = "Ok"

RECURSIVE FlattenFrom(_, _)
FlattenFrom(ws, i) ==
    IF i > Len(ws) THEN <<>> ELSE ws[i] \o FlattenFrom(ws, i + 1)

\* The text of a sequence of writes, piece by piece.
Flatten(ws) == FlattenFrom(ws, 1)

\* The writes that start a declaration.
DeclPositions == {i \in 1..Len(w) : w[i] = <<"export type ">>}

\* The type whose declaration starts at write i: the one whose bare name is
\* the first type name written after 'export type ' (0 while none is).
DeclName(i) ==
    LET J == {j \in (i + 1)..Len(w) :
                 \E t \in DefinedTypes : w[j] = <<NameOf(t).name>>}
    IN  IF J = {} THEN 0
        ELSE LET j == CHOOSE j \in J : \A k \in J : j <= k
             IN  CHOOSE t \in DefinedTypes : w[j] = <<NameOf(t).name>>

\* The declarations of type t in the output.
DeclsOf(t) == {i \in DeclPositions : DeclName(i) = t}

\* How many entries of the dependency lists of reachable types name t.
InDegree(t) ==
    Cardinality({<<s, i>> \in Reachable \X (1..MaxEdges) :
                    i <= Len(deps[s]) /\ deps[s][i] = t})

\* t depends on itself through one or more dependency entries.
OnCycle(t) ==
    t \in ReachFrom(deps, {deps[t][i] : i \in 1..Len(deps[t])})

----------------------------------------------------------------------------
\* C1: a successful run has written exactly one declaration for every Defined
\* type reachable from the root through the dependency lists, and none for
\* any other type, however many dependency entries and cycles lead to it.
ExactlyOneDeclaration ==
    Done =>
        /\ \A t \in Types :
              Cardinality(DeclsOf(t)) = (IF t \in ReachableDefined THEN 1 ELSE 0)
        /\ Cardinality(DeclPositions) = Cardinality(ReachableDefined)

\* A finished run over a graph in which a Defined type on a cycle is named by
\* two or more dependency entries.
ExactlyOneDeclarationWitness ==
    /\ Done
    /\ \E t \in ReachableDefined : InDegree(t) >= 2 /\ OnCycle(t)

----------------------------------------------------------------------------
\* C4: the count a successful run returns is the number of distinct Defined
\* types reachable from the root; Native types and repeated paths add nothing.
StatsCountsReachableDefined ==
    Done => result.stats.type_definitions = Cardinality(ReachableDefined)

\* A finished run that reached a Native type and a Defined type named by
\* several dependency entries.
StatsWitness ==
    /\ Done
    /\ Reachable \cap NativeTypes # {}
    /\ \E t \in ReachableDefined : InDegree(t) >= 2
    /\ result.stats.type_definitions = 2

----------------------------------------------------------------------------
\* How many writes of the output equal x.
CountWrites(x) == Cardinality({i \in 1..Len(w) : w[i] = x})

\* The graph of two Defined types X and Y that depend on each other and on
\* nothing else, X being the root.
TwoCycle(X, Y) ==
    /\ X # Y /\ root = X
    /\ deps[X] = <<Y>> /\ deps[Y] = <<X>>
    /\ \A t \in Types \ {X, Y} : deps[t] = <<>>

\* The text of the run on A <-> B with root A and no header, as the format
\* strings of the source give it.
TwoCycleText ==
    << "export default ", "types", ";", "\n",
       "export namespace ", "types", "{", "\n",
       "export namespace ", "a", ".", "b", "{",
       "export type ",
       "\n", "/**", "\n", " * ", "name of B", "\n", " */", "\n",
       "B", "<", "number", ">", "=",
       "(", "types", ".", "A", ")", ";", "}", "\n",
       "\n", "/**", "\n", " * ", "type A", "\n", " */", "\n",
       "export type ", "A", "=",
       "{", "f1", ":", "types", ".",
       "\n", "/**", "\n", " * ", "name of B", "\n", " */", "\n",
       "a", ".", "b", ".", "B", "<", "number", ">", ";", "}", ";", "\n",
       "}", "\n" >>

\* C2: with a sink that accepts every write, every run over every dependency
\* graph ends with Ok, never needing more stack than one frame per type; on
\* the two-type cycle it has then written exactly two declarations, the one
\* of the type visited second first, each naming the other once, by its
\* qualified name.
TerminatesOnEveryGraph ==
    /\ <>Done
    /\ [](Len(stack) <= Cardinality(Types) + 2)
    /\ [](\A X, Y \in DefinedTypes :
             (Done /\ TwoCycle(X, Y)) =>
                /\ Cardinality(DeclPositions) = 2
                /\ Cardinality(DeclsOf(X)) = 1 /\ Cardinality(DeclsOf(Y)) = 1
                /\ \A i \in DeclsOf(Y), j \in DeclsOf(X) : i < j
                /\ CountWrites(<<options.root_namespace, ".">>) = 2
                /\ CountWrites(<<NameOf(X).name>>) = 2
                /\ CountWrites(<<NameOf(Y).name>>) = 2)
    /\ []((Done /\ TwoCycle(1, 2) /\ ~options.header.some) =>
             Flatten(w) = TwoCycleText)

\* The finished run on the cycle A <-> B.
TwoCycleWitness == Done /\ TwoCycle(1, 2) /\ ~options.header.some

----------------------------------------------------------------------------
\* C3 (as amended): in a successful run, the declaration of each Defined type
\* D that a declared type T lists as a dependency comes before the
\* declaration of T, unless T is itself reachable from D.
DeclaredAfterDependencies ==
    Done =>
        \A T \in ReachableDefined : \A k \in 1..Len(deps[T]) :
            LET D == deps[T][k]
            IN  (D \in DefinedTypes /\ T \notin ReachFrom(deps, {D})) =>
                   /\ DeclsOf(D) # {}
                   /\ \A i \in DeclsOf(D), j \in DeclsOf(T) : i < j

\* C3 (as claimed): in a successful run, no declared type's declaration
\* precedes the declaration of a Defined type it lists as a dependency,
\* whatever the graph.
DeclNeverPrecedesDependency ==
    Done =>
        \A T \in ReachableDefined : \A k \in 1..Len(deps[T]) :
            LET D == deps[T][k]
            IN  D \in DefinedTypes =>
                   /\ DeclsOf(D) # {}
                   /\ \A i \in DeclsOf(D), j \in DeclsOf(T) : i <= j

\* A finished run in which a type and its acyclic Defined dependency are
\* both declared, the dependency also being reached a second way.
DeclaredAfterDependenciesWitness ==
    /\ Done
    /\ \E T \in ReachableDefined : \E k \in 1..Len(deps[T]) :
          /\ deps[T][k] \in DefinedTypes
          /\ T \notin ReachFrom(deps, {deps[T][k]})
          /\ InDegree(deps[T][k]) >= 2

----------------------------------------------------------------------------
\* The number of writes the header takes.
HeaderLen == IF options.header.some THEN Len(options.header.v) + 1 ELSE 0

RootOpen == <<"export namespace ", options.root_namespace, "{", "\n">>

RootClose == <<"}", "\n">>

RECURSIVE DeclOrderFrom(_)
\* The declared types, in the order of their declarations from write i on.
DeclOrderFrom(i) ==
    IF i > Len(w) THEN <<>>
    ELSE (IF w[i] = <<"export type ">> THEN <<DeclName(i)>> ELSE <<>>)
         \o DeclOrderFrom(i + 1)

RECURSIVE Declarations(_, _)
\* The writes of the declarations of the types of ts, one after the other.
Declarations(ts, i) ==
    IF i > Len(ts) THEN <<>>
    ELSE DefWrites(ts[i]) \o Declarations(ts, i + 1)

\* C5: a successful run has written, in this order and nothing else: the
\* header lines and a blank line exactly when there is a header; one default
\* export of the root namespace; the opening of the root namespace; the
\* declarations; the closing of the root namespace.  At no moment of any run
\* is a declaration started outside the root namespace block, and nothing is
\* written after its closing.
WritesInOrder ==
    /\ Done =>
          LET h == HeaderLen
              n == Len(w)
          IN  /\ n >= h + 3
              /\ options.header.some =>
                    /\ \A i \in 1..(h - 1) :
                          w[i] = <<"// ", options.header.v[i], "\n">>
                    /\ w[h] = <<"\n">>
              /\ \A i \in (h + 1)..n : w[i][1] # "// "
              /\ w[h + 1] = <<"export default ", options.root_namespace, ";", "\n">>
              /\ w[h + 2] = RootOpen
              /\ w[n] = RootClose
              /\ {i \in 1..n : w[i][1] = "export default "} = {h + 1}
              /\ {i \in 1..n : Len(w[i]) > 1 /\ w[i][1] = "export namespace "}
                    = {h + 2}
              /\ {i \in 1..n : w[i] = RootClose} = {n}
              /\ \A i \in DeclPositions : h + 2 < i /\ i < n
              /\ SubSeq(w, h + 3, n - 1)
                    = Declarations(DeclOrderFrom(1), 1)
    /\ (w # <<>> /\ w[Len(w)] = <<"export type ">>) =>
          /\ \E j \in 1..Len(w) : w[j] = RootOpen
          /\ \A j \in 1..Len(w) : w[j] # RootClose
    /\ Len(w) >= 2 => w[Len(w) - 1] # RootClose

\* A finished run with a two-line header and two declarations.
WritesInOrderWitness ==
    /\ Done
    /\ options.header.some /\ Len(options.header.v) = 2
    /\ Cardinality(DeclPositions) = 2

----------------------------------------------------------------------------
\* C6: a write that fails ends the run with the error: the step of a pending
\* write either adds that write to the sink or makes Err the result; the
\* failing step writes nothing, visits nothing and counts nothing; Err
\* carries no Stats; and no step follows the end of the run.
SinkFailureAborts ==
    /\ [](result.tag = "Err" =>
             /\ result = [tag |-> "Err"]
             /\ stack = <<>> /\ pending = <<>>)
    /\ [][/\ result.tag = "running"
          /\ pending # <<>> =>
                \/ w' = Append(w, Head(pending)) /\ result' = result
                \/ result'.tag = "Err"
          /\ result'.tag = "Err" =>
                /\ pending # <<>>
                /\ w' = w /\ visited' = visited /\ stats' = stats
          /\ pending = <<>> => result'.tag # "Err"]_vars

\* A run that failed on a write inside the declaration of a type visited
\* below the root.
SinkFailureWitness ==
    /\ result.tag = "Err"
    /\ Cardinality(visited) >= 2
    /\ w # <<>> /\ w[Len(w)] = <<"export type ">>
    /\ stats.type_definitions = 1

----------------------------------------------------------------------------
RECURSIVE DepthsFrom(_, _, _)
\* The brace depth before each piece of txt from piece k on, and after the
\* last one.
DepthsFrom(txt, k, d) ==
    IF k > Len(txt) THEN <<d>>
    ELSE <<d>> \o DepthsFrom(txt, k + 1,
                    IF txt[k] = "{" THEN d + 1
                    ELSE IF txt[k] = "}" THEN d - 1 ELSE d)

\* The pieces that open the namespace of a path: the segments, dotted.
NamespaceHeader(path) ==
    <<"export namespace ">>
    \o [j \in 1..(2 * Len(path) - 1) |->
           IF j % 2 = 1 THEN path[(j + 1) \div 2] ELSE "."]
    \o <<"{">>

\* The type declared at piece k of txt, an 'export type ' piece.
DeclTypeAt(txt, k) ==
    LET J == {j \in (k + 1)..Len(txt) :
                 \E t \in DefinedTypes : txt[j] = NameOf(t).name}
        j == CHOOSE j \in J : \A i \in J : j <= i
    IN  CHOOSE t \in DefinedTypes : txt[j] = NameOf(t).name

\* C7: in the output of a successful run every declaration of a type with a
\* non-empty path is directly preceded by the opening of one exported
\* namespace that names each path segment once, in order, opened directly
\* inside the root block, and is followed by its closing before anything
\* else is declared; a declaration of a type with an empty path lies
\* directly in the root block; braces never close the root block before the
\* end and are balanced at the end.
NamespaceWrappersNest ==
    Done =>
        LET txt == Flatten(w)
            n == Len(txt)
            dp == DepthsFrom(txt, 1, 0)
            r == CHOOSE k \in 1..n : txt[k] = "{" /\ \A j \in 1..(k - 1) : txt[j] # "{"
            decls == {k \in 1..n : txt[k] = "export type "}
        IN  /\ dp[n + 1] = 0
            /\ \A k \in (r + 1)..(n - 1) : dp[k] >= 1
            /\ \A k \in decls :
                  LET path == NameOf(DeclTypeAt(txt, k)).path
                      hd == NamespaceHeader(path)
                  IN  IF path = <<>>
                      THEN dp[k] = 1 /\ txt[k - 1] # "{"
                      ELSE /\ SubSeq(txt, k - Len(hd), k - 1) = hd
                           /\ dp[k - Len(hd)] = 1
                           /\ dp[k] = 2
                           /\ LET c == CHOOSE c \in (k + 1)..n :
                                          /\ dp[c + 1] = 1
                                          /\ \A j \in (k + 1)..(c - 1) : dp[j + 1] > 1
                              IN  /\ txt[c] = "}" /\ txt[c - 1] = ";"
                                  /\ txt[c + 1] = "\n"
                                  /\ \A j \in (k + 1)..c : j \notin decls
            /\ Cardinality({k \in (r + 1)..n : txt[k] = "export namespace "})
                  = Cardinality({k \in decls :
                                    NameOf(DeclTypeAt(txt, k)).path # <<>>})

\* A finished run that declared the type of path a.b and, after it, the type
\* of empty path.
NamespaceWrappersWitness ==
    /\ Done
    /\ DeclsOf(1) # {} /\ DeclsOf(2) # {}
    /\ \A i \in DeclsOf(2), j \in DeclsOf(1) : i < j

----------------------------------------------------------------------------
\* The pieces of a doc block, as impl Emit for Docs formats them.
DocsText(d) ==
    IF d.some
    THEN <<"\n", "/**", "\n">>
         \o FlattenFrom([i \in 1..Len(d.v) |-> <<" * ", d.v[i], "\n">>], 1)
         \o <<" */", "\n">>
    ELSE <<>>

\* The path segments, each followed by a dot.
PathText(path) ==
    [j \in 1..(2 * Len(path)) |-> IF j % 2 = 1 THEN path[(j + 1) \div 2] ELSE "."]

RECURSIVE GenericsFrom(_, _)
GenericsFrom(gs, i) ==
    IF i > Len(gs) THEN <<>>
    ELSE (IF i = 1 THEN <<>> ELSE <<",">>)
         \o Flatten(EmitTypeExpr(gs[i])) \o GenericsFrom(gs, i + 1)

\* The generics of a name between angle brackets, none when it has none.
GenericsText(gs) ==
    IF gs = <<>> THEN <<>> ELSE <<"<">> \o GenericsFrom(gs, 1) \o <<">">>

\* The name of a Defined type as the claim words it: the path segments, the
\* name, the generics.
BareNameText(t) ==
    PathText(NameOf(t).path) \o <<NameOf(t).name>>
    \o GenericsText(NameOf(t).generics)

\* The same preceded by the doc block of the TypeName, when it has one.
NameText(t) == DocsText(NameOf(t).docs) \o BareNameText(t)

\* What may follow a reference inside the structural definitions.
Delimiters == {";", ")", "|", "&", ",", "]", ">"}

\* Every reference written in txt (the root namespace and a dot) is followed
\* by the name text of one Defined type and then by a delimiter.
RefsSpell(txt, text(_)) ==
    \A k \in 1..(Len(txt) - 1) :
        (txt[k] = options.root_namespace /\ txt[k + 1] = ".") =>
            \E t \in DefinedTypes :
                LET m == Len(text(t))
                IN  /\ k + 2 + m <= Len(txt)
                    /\ SubSeq(txt, k + 2, k + 1 + m) = text(t)
                    /\ txt[k + 2 + m] \in Delimiters

\* The text of the run from root A over A -> V -> B with no header.
ThroughNativeText ==
    << "export default ", "types", ";", "\n",
       "export namespace ", "types", "{", "\n",
       "export namespace ", "a", ".", "b", "{",
       "export type ",
       "\n", "/**", "\n", " * ", "name of B", "\n", " */", "\n",
       "B", "<", "number", ">", "=", "\"", "b", "\"", ";", "}", "\n",
       "\n", "/**", "\n", " * ", "type A", "\n", " */", "\n",
       "export type ", "A", "=",
       "{", "f1", ":", "(", "types", ".",
       "\n", "/**", "\n", " * ", "name of B", "\n", " */", "\n",
       "a", ".", "b", ".", "B", "<", "number", ">", ")", "[]", ";", "}", ";", "\n",
       "}", "\n" >>

ThroughNative ==
    /\ root = 1 /\ deps[1] = <<3>> /\ deps[3] = <<2>> /\ deps[2] = <<>>
    /\ ~options.header.some

\* C8 (as amended): a Ref to a Defined type writes the root namespace, a dot
\* and the TypeName (its doc block when the name has docs, the path segments
\* each followed by a dot, the name, the generics) and nothing else; a Ref to
\* a Native type writes what the Native type's own expression writes; and no
\* step taken while writes are pending changes the visited set or the
\* counter, or starts a visit.
RefWritesQualifiedName ==
    /\ [](Done =>
             /\ \A t \in DefinedTypes :
                   Flatten(EmitRef(t))
                      = <<options.root_namespace, ".">> \o NameText(t)
             /\ \A t \in NativeTypes :
                   Flatten(EmitRef(t)) = Flatten(EmitTypeExpr(DefOf(t)))
             /\ RefsSpell(Flatten(w), NameText)
             /\ ThroughNative => Flatten(w) = ThroughNativeText)
    /\ [][pending # <<>> =>
             /\ visited' = visited /\ stats' = stats
             /\ Len(stack') <= Len(stack)]_vars

\* C8 (as claimed): every reference in the output of a successful run is the
\* root namespace, a dot, the path segments, the name and the generics of a
\* Defined type, and nothing else.
RefWritesBareName ==
    Done => RefsSpell(Flatten(w), BareNameText)

\* A finished run that wrote a reference to each Defined type, one of them
\* inside the expression of a Native type.
RefWitness ==
    /\ Done
    /\ 3 \in Reachable /\ deps[3] = <<2>>
    /\ \E i \in 1..Len(deps[2]) : deps[2][i] = 1
    /\ CountWrites(<<options.root_namespace, ".">>) >= 2

----------------------------------------------------------------------------
AtEnter == Running /\ Top.fn = "emit_type" /\ Top.pc = "enter"

\* C9: the visited set is empty when the run starts and only grows; a visit
\* of a visited type returns and changes nothing else; a visit of a new type
\* records it and does nothing else in that step, so that every type whose
\* dependencies are being traversed or whose declaration is being written is
\* in the set, no type is in that position twice, and the traversal of a
\* type's dependencies starts only at a visit that found the type new.
VisitedGuardsTraversal ==
    /\ visited = {}
    /\ [][visited \subseteq visited']_vars
    /\ [][AtEnter =>
             IF Top.T \in visited
             THEN /\ stack' = Pop
                  /\ UNCHANGED <<w, visited, stats, pending, result>>
             ELSE /\ visited' = visited \cup {Top.T}
                  /\ stack' = SetTop([Top EXCEPT !.pc = "deps"])
                  /\ UNCHANGED <<w, stats, pending, result>>]_vars
    /\ [][Len(stack') > Len(stack) =>
             /\ stack'[Len(stack')].pc = "enter"
             /\ SubSeq(stack', 1, Len(stack) - 1) = Pop]_vars
    /\ [](\A k \in 1..Len(stack) :
             (stack[k].fn = "emit_type" /\ stack[k].pc # "enter") =>
                /\ stack[k].T \in visited
                /\ \A j \in 1..Len(stack) :
                      (j # k /\ stack[j].fn = "emit_type"
                         /\ stack[j].pc # "enter") => stack[j].T # stack[k].T)

\* A type other than the root has just had its visit of the root, which is
\* still being traversed, return.
VisitedWitness ==
    /\ Running /\ Top.fn = "emit_type" /\ Top.pc = "deps"
    /\ Top.T # root /\ Top.i > 1
    /\ deps[Top.T][Top.i - 1] = root
    /\ Len(stack) >= 3

----------------------------------------------------------------------------
\* The dependency lists without those of the Native types.
DepsOfDefinedOnly == [t \in Types |-> IF Kind[t] = "Native" THEN <<>> ELSE deps[t]]

\* The Defined types that every path from the root reaches through a Native
\* type.
OnlyThroughNative == ReachableDefined \ ReachFrom(DepsOfDefinedOnly, {root})

\* C10: the declaration step of a Native type returns without a write and
\* without counting; in a successful run the dependencies of every visited
\* Native type are visited, every Defined type reached only through Native
\* types is declared exactly once, and the count and the declarations are
\* those of the visited Defined types.
NativeDeclaresNothing ==
    /\ [][(/\ Running /\ Top.fn = "emit_type" /\ Top.pc = "deps"
           /\ Top.i > Len(deps[Top.T])
           /\ Kind[Top.T] = "Native") =>
             /\ stack' = Pop
             /\ UNCHANGED <<w, visited, stats, pending, result>>]_vars
    /\ [](Done =>
             /\ \A n \in visited \cap NativeTypes :
                   \A k \in 1..Len(deps[n]) : deps[n][k] \in visited
             /\ \A d \in OnlyThroughNative : Cardinality(DeclsOf(d)) = 1
             /\ Cardinality(DeclPositions)
                   = Cardinality(visited \cap DefinedTypes)
             /\ stats.type_definitions
                   = Cardinality(visited \cap DefinedTypes))

\* A finished run with a Defined type reached only through a Native type
\* that is not the root.
NativeWitness ==
    /\ Done
    /\ root \in DefinedTypes
    /\ OnlyThroughNative # {}

====
